---------------------------- MODULE Spec2Model ----------------------------
(***************************************************************************)
(* Model of the snapshot synchronisation engine of jamf_change_monitor:    *)
(* the module runners (modules/*.py: get), the thread wrapper              *)
(* (simple_multitasking.py: ThreadFunction) and the collection loop and    *)
(* commit phase of jamf_change_monitor.py: main.                           *)
(*                                                                         *)
(* Files are texts: sequences of string tokens.  A JSON document written   *)
(* by json.dumps is the token text <<"{", id, name, "}">>; a script payload*)
(* is a text over the characters "a", "b", "LF" and "CR".  Script payloads *)
(* are assumed not to be valid JSON documents.                             *)
(***************************************************************************)
EXTENDS Integers, Sequences, FiniteSets, TLC

\* ------------------------------------------------------------------ bounds
\* Largest object identity the source hands out.
MaxId == 2
\* Largest number of records in the source's collection.
MaxFetch == 2
\* Page size requested by the paginated modules (100 in the code, scaled down).
PageSize == 1
\* Longest script payload, in characters, of the payload specification.
MaxTextLen == 2
\* Number of module units the scheduler starts.
NumUnits == 3
\* Capacity of ThreadFunction.LIMIT (25 in the code, scaled down).
Ceiling == 2
\* Number of pages for which a scripted source has an answer of its own.
MaxPages == 2
\* Largest totalCount a scripted source reports for those pages.
MaxTotal == 3

Ids == 1..MaxId
Names == {"Old", "New"}
Chars == {"a", "b", "LF", "CR"}

\* ------------------------------------------------------- strings and JSON
\* str(data_object['id'])
IdStr(i) == <<"1", "2", "3", "4", "5", "6">>[i]

\* int(file.stem)
IdInt(s) == CHOOSE i \in 1..6 : IdStr(i) = s

\* json.dumps(clean_data(data_object), indent=4, sort_keys=sort_keys); clean_data
\* returns its argument.  For scripts the object no longer has scriptContents.
Dumps(obj) == <<"{", IdStr(obj.id), obj.name, "}">>

\* json.load(saved_file): the decoded object, or JSONDecodeError.
JsonLoad(text) ==
    IF Len(text) = 4 /\ text[1] = "{" /\ text[4] = "}"
    THEN [ok |-> TRUE, id |-> IdInt(text[2]), name |-> text[3]]
    ELSE [ok |-> FALSE, id |-> 0, name |-> ""]

\* get_name(json_data)
get_name(json_data) == json_data.name

\* file.read() of a file opened in text mode: universal newlines turn CR LF
\* and a lone CR into LF.
RECURSIVE ReadText(_)
ReadText(bytes) ==
    IF bytes = <<>> THEN <<>>
    ELSE IF bytes[1] = "CR"
         THEN IF Len(bytes) >= 2 /\ bytes[2] = "LF"
              THEN <<"LF">> \o ReadText(SubSeq(bytes, 3, Len(bytes)))
              ELSE <<"LF">> \o ReadText(Tail(bytes))
         ELSE <<bytes[1]>> \o ReadText(Tail(bytes))

\* file.write(text) in text mode on macOS/Linux: LF is written as os.linesep,
\* which is LF; every other character is written as it is.
WriteText(text) == text

\* str.splitlines(): split at LF, CR and CR LF; no empty last line after a
\* final terminator.
RECURSIVE SplitFrom(_, _, _)
SplitFrom(text, cur, out) ==
    IF text = <<>> THEN (IF cur = <<>> THEN out ELSE Append(out, cur))
    ELSE IF text[1] = "CR" /\ Len(text) >= 2 /\ text[2] = "LF"
         THEN SplitFrom(SubSeq(text, 3, Len(text)), <<>>, Append(out, cur))
         ELSE IF text[1] \in {"CR", "LF"}
              THEN SplitFrom(Tail(text), <<>>, Append(out, cur))
              ELSE SplitFrom(Tail(text), Append(cur, text[1]), out)

splitlines(text) == SplitFrom(text, <<>>, <<>>)

\* len(list(difflib.context_diff(a, b))) > 0: context_diff yields nothing
\* exactly when the two line lists are equal.
context_diff_nonempty(a, b) == a # b


\* --------------------------------------------------------- the filesystem
\* A path of the repository is <<module directory, file stem, suffix>>; the
\* filesystem maps the existing paths to their texts.
Suffixes(m) == IF m \in {"scripts", "computerextensionattributes"}
               THEN <<".data", ".script">> ELSE <<"">>

\* file_path = module_path.joinpath(str(data_object['id'])), .with_suffix(sfx)
FilePath(m, id, sfx) == <<m, IdStr(id), sfx>>

\* Path(file_path).exists()
Exists(fs, path) == path \in DOMAIN fs

\* file.truncate() at position pos: what lies behind pos is cut off.
Truncate(content, pos) == SubSeq(content, 1, pos)

\* file.write(text) at position pos: the text replaces what lies at pos and
\* behind it as far as it reaches; what lies behind the text stays.
WriteAt(content, pos, text) ==
    SubSeq(content, 1, pos) \o text
        \o SubSeq(content, pos + Len(text) + 1, Len(content))

\* The content of the file at path, none for a file that does not exist.
ContentOf(fs, path) == IF path \in DOMAIN fs THEN fs[path] ELSE <<>>

\* WriteFile as it would be with seek(0) and write(text) but no truncate().
WriteFileNoTruncate(fs, path, text) ==
    [p \in DOMAIN fs \cup {path} |->
        IF p = path THEN WriteAt(ContentOf(fs, path), 0, WriteText(text))
        ELSE fs[p]]

\* open(path, 'w'), write(text) for a new file; for an existing one, opened
\* 'r+' and read to its end: seek(0), truncate(), write(text).
WriteFile(fs, path, text) ==
    [p \in DOMAIN fs \cup {path} |->
        IF p = path
        THEN WriteAt(Truncate(ContentOf(fs, path), 0), 0, WriteText(text))
        ELSE fs[p]]

\* Path(file).unlink(), and the working-tree effect of git rm
Unlink(fs, path) == [p \in DOMAIN fs \ {path} |-> fs[p]]

\* The value of the one element of a singleton: {e : x \in {d}} computes d
\* once and names it x in e.
Only(S) == CHOOSE x \in S : TRUE

RECURSIVE Reverse(_)
Reverse(s) == IF s = <<>> THEN <<>> ELSE Append(Reverse(Tail(s)), s[1])

RECURSIVE SortedFrom(_, _, _, _)
SortedFrom(fs, m, id, k) ==
    IF id > 6 THEN <<>>
    ELSE IF k > Len(Suffixes(m)) THEN SortedFrom(fs, m, id + 1, 1)
    ELSE (IF Exists(fs, FilePath(m, id, Suffixes(m)[k]))
          THEN <<FilePath(m, id, Suffixes(m)[k])>> ELSE <<>>)
         \o SortedFrom(fs, m, id, k + 1)

\* module_path.iterdir(): the directory's files in the order the operating
\* system lists them, here by name or by name reversed.
iterdir(fs, m, rev) ==
    IF rev THEN Reverse(SortedFrom(fs, m, 1, 1)) ELSE SortedFrom(fs, m, 1, 1)

\* ------------------------------------------------------ the fetch capability
\* The upstream source of a module: its collection recs (in the order it is
\* served), the page whose request is answered with a non-success response
\* (failAt = p + 1, 0 for none) and, for modules with a detail request per
\* identity, the identities whose detail request fails.
Min(a, b) == IF a < b THEN a ELSE b

\* JamfUAPI.get_data('v1', <collection>, page=page, size=size): APIResponse;
\* data is the decoded JSON on success and the response text otherwise.
\* A scripted source (one with a field pages) answers page p with the
\* totalCount and the results of pages[p + 1]; for the pages after those it
\* either reports a total that stays ahead of the pages requested ("grow") or
\* reports no records at all ("stop").
UapiGetData(src, page, size) ==
    IF "pages" \in DOMAIN src
    THEN IF page < Len(src.pages)
         THEN [success |-> TRUE,
               totalCount |-> src.pages[page + 1].totalCount,
               results |-> src.pages[page + 1].results]
         ELSE [success |-> TRUE,
               totalCount |-> IF src.tail = "grow" THEN (page + 2) * size ELSE 0,
               results |-> <<>>]
    ELSE IF src.failAt = page + 1
    THEN [success |-> FALSE, totalCount |-> 0, results |-> <<>>]
    ELSE [success |-> TRUE,
          totalCount |-> Len(src.recs),
          results |-> SubSeq(src.recs, page * size + 1,
                             Min((page + 1) * size, Len(src.recs)))]

\* One iteration of "while remainder:" with the response to its request.
\* api_query.data['totalCount'] on a non-success response indexes a str and
\* raises TypeError.
LoopBody(api_query, page, size, data_objects) ==
    IF ~api_query.success
    THEN [raised |-> TRUE, remainder |-> FALSE, page |-> page,
          data_objects |-> data_objects]
    ELSE [raised |-> FALSE,
          remainder |-> ((page + 1) * size) < api_query.totalCount,
          page |-> page + 1,
          data_objects |-> data_objects \o api_query.results]

\* The pagination loop: remainder, page, size = True, 0, 100; while remainder.
RECURSIVE QueryApi(_, _, _)
QueryApi(src, page, data_objects) ==
    LET api_query == UapiGetData(src, page, PageSize)
    IN  Only({IF it.raised
              THEN [raised |-> TRUE, success |-> FALSE,
                    data_objects |-> it.data_objects]
              ELSE IF it.remainder THEN QueryApi(src, it.page, it.data_objects)
                   ELSE [raised |-> FALSE, success |-> api_query.success,
                         data_objects |-> it.data_objects] :
             it \in {LoopBody(api_query, page, PageSize, data_objects)}})

\* JamfClassic.get_data(<collection>): one request for the whole collection.
ClassicGetData(src) ==
    IF src.failAt # 0
    THEN [success |-> FALSE, data_objects |-> <<>>]
    ELSE [success |-> TRUE, data_objects |-> src.recs]

\* ------------------------------------------------------- the module runners
EmptyLog == [diff |-> <<>>, add |-> <<>>, remove |-> <<>>]

LogRecord(name, id, file) == [name |-> name, id |-> id, file |-> file]

\* "Remove files": one 'remove' record per listed file whose stem no fetched
\* object has as id.  The name is read from the saved file; the two-unit
\* modules fall back to the stem when the file is not JSON.
RECURSIVE RemoveScan(_, _, _, _)
RemoveScan(fs, files, data_objects, remove) ==
    IF files = <<>> THEN remove
    ELSE LET file == files[1]
             stem == file[2]
             fetched == \E k \in 1..Len(data_objects) :
                            data_objects[k].id = IdInt(stem)
             saved == JsonLoad(ReadText(fs[file]))
             name == IF saved.ok THEN get_name(saved) ELSE stem
         IN  RemoveScan(fs, Tail(files), data_objects,
                        IF fetched THEN remove
                        ELSE Append(remove, LogRecord(name, stem, file)))

\* SaveData as it would be if an existing file were rewritten and reported
\* without comparing old_data and new_data.
SaveDataNoCompare(st, path, name, id, new_data) ==
    IF Exists(st.fs, path)
    THEN [fs |-> WriteFile(st.fs, path, new_data),
          written |-> st.written \cup {path},
          log |-> [st.log EXCEPT !.diff = Append(@, LogRecord(name, id, path))]]
    ELSE [fs |-> WriteFile(st.fs, path, new_data),
          written |-> st.written \cup {path},
          log |-> [st.log EXCEPT !.add = Append(@, LogRecord(name, id, path))]]

\* SaveData as it would be if every fetched object were written as a new
\* file, without the exists() test.
SaveDataNoExistsTest(st, path, name, id, new_data) ==
    [fs |-> WriteFile(st.fs, path, new_data),
     written |-> st.written \cup {path},
     log |-> [st.log EXCEPT !.add = Append(@, LogRecord(name, id, path))]]

\* SaveData as it would be if a change were reported without file.write().
SaveDataNoWrite(st, path, name, id, new_data) ==
    IF Exists(st.fs, path)
    THEN LET old_data == ReadText(st.fs[path])
         IN  IF old_data # new_data
             THEN [fs |-> st.fs,
                   written |-> st.written,
                   log |-> [st.log EXCEPT !.diff = Append(@, LogRecord(name, id, path))]]
             ELSE st
    ELSE [fs |-> WriteFile(st.fs, path, new_data),
          written |-> st.written \cup {path},
          log |-> [st.log EXCEPT !.add = Append(@, LogRecord(name, id, path))]]

\* One JSON file-unit of one fetched object: written and reported as 'diff'
\* when the file exists and old_data != new_data, written and reported as
\* 'add' when the file does not exist.
SaveData(st, path, name, id, new_data) ==
    IF Exists(st.fs, path)
    THEN LET old_data == ReadText(st.fs[path])
         IN  IF old_data # new_data
             THEN [fs |-> WriteFile(st.fs, path, new_data),
                   written |-> st.written \cup {path},
                   log |-> [st.log EXCEPT !.diff = Append(@, LogRecord(name, id, path))]]
             ELSE st
    ELSE [fs |-> WriteFile(st.fs, path, new_data),
          written |-> st.written \cup {path},
          log |-> [st.log EXCEPT !.add = Append(@, LogRecord(name, id, path))]]

\* The payload file-unit (.script): written and reported as 'diff' when the
\* file exists and the line diff of the two texts is not empty.
SaveScript(st, path, name, id, new_script) ==
    IF Exists(st.fs, path)
    THEN LET old_script == ReadText(st.fs[path])
         IN  IF context_diff_nonempty(splitlines(old_script), splitlines(new_script))
             THEN [fs |-> WriteFile(st.fs, path, new_script),
                   written |-> st.written \cup {path},
                   log |-> [st.log EXCEPT !.diff = Append(@, LogRecord(name, id, path))]]
             ELSE st
    ELSE [fs |-> WriteFile(st.fs, path, new_script),
          written |-> st.written \cup {path},
          log |-> [st.log EXCEPT !.add = Append(@, LogRecord(name, id, path))]]

\* "Save new/changed data" for one fetched object of module m.
SaveObject(st, m, data_object) ==
    LET name == get_name(data_object)
        id == data_object.id
    IN  IF Len(Suffixes(m)) = 1
        THEN SaveData(st, FilePath(m, id, ""), name, id, Dumps(data_object))
        ELSE Only({SaveScript(next, FilePath(m, id, ".script"), name, id,
                              data_object.script) :
                  next \in {SaveData(st, FilePath(m, id, ".data"), name, id,
                                     Dumps(data_object))}})

\* SaveLoop as it would be if the fetched objects were handled last first.
RECURSIVE SaveLoopBackwards(_, _, _)
SaveLoopBackwards(st, m, data_objects) ==
    IF data_objects = <<>> THEN st
    ELSE Only({SaveLoopBackwards(next, m,
                                  SubSeq(data_objects, 1, Len(data_objects) - 1)) :
                  next \in {SaveObject(st, m, data_objects[Len(data_objects)])}})

\* for data_object in data_objects: in the order of the fetched list
RECURSIVE SaveLoop(_, _, _)
SaveLoop(st, m, data_objects) ==
    IF data_objects = <<>> THEN st
    ELSE Only({SaveLoop(next, m, Tail(data_objects)) :
                  next \in {SaveObject(st, m, data_objects[1])}})

\* The body under "if api_query.success:" shared by the modules.
Process(fs, m, data_objects, rev) ==
    Only({SaveLoop([fs |-> fs, written |-> {},
                    log |-> [EmptyLog EXCEPT !.remove = remove]],
                   m, data_objects) :
             remove \in {RemoveScan(fs, iterdir(fs, m, rev), data_objects, <<>>)}})

\* What a call of get() comes to: it raised (the thread's _return stays None)
\* or it returned the log {module: {'diff': .., 'add': .., 'remove': ..}}.
\* written is the set of files the call wrote.
\* errors is the set of failure messages the call logged.
NoneValue == [isNone |-> TRUE, module |-> "", report |-> EmptyLog]

Raised(fs) ==
    [raised |-> TRUE, fs |-> fs, written |-> {}, ret |-> NoneValue, errors |-> {}]

Returned(fs, written, m, log) ==
    [raised |-> FALSE, fs |-> fs, written |-> written,
     ret |-> [isNone |-> FALSE, module |-> m, report |-> log], errors |-> {}]

\* The else branch of "if api_query.success:": logging.error('Failed to
\* retrieve: <module>'), then return log, which is still empty.
FailedToRetrieve(fs, m) ==
    [raised |-> FALSE, fs |-> fs, written |-> {},
     ret |-> [isNone |-> FALSE, module |-> m, report |-> EmptyLog],
     errors |-> {[text |-> "Failed to retrieve", module |-> m, id |-> ""]}]

\* get() of a paginated module (categories, scripts, computers-inventory).
GetPaginated(fs, m, src, rev) ==
    Only({
        IF api_query.raised THEN Raised(fs)
        ELSE IF api_query.success
             THEN Only({Returned(st.fs, st.written, m, st.log) :
                     st \in {Process(fs, m, api_query.data_objects, rev)}})
             ELSE FailedToRetrieve(fs, m) :
        api_query \in {QueryApi(src, 0, <<>>)}})

\* "Save new/changed data" of a module with a detail request per identity:
\* an object whose detail request does not succeed is passed over.
RECURSIVE SaveLoopDetail(_, _, _, _)
SaveLoopDetail(st, m, data_objects, detailFail) ==
    IF data_objects = <<>> THEN st
    ELSE Only({SaveLoopDetail(next, m, Tail(data_objects), detailFail) :
                  next \in {IF data_objects[1].id \in detailFail THEN st
                            ELSE SaveObject(st, m, data_objects[1])}})

\* GetComputerGroups as it would be if the "Remove files" scan ran whatever
\* the response, with the empty list of a failed request.
GetComputerGroupsScansOnFailure(fs, m, src, rev) ==
    Only({Returned(fs, {}, m, [EmptyLog EXCEPT !.remove = remove]) :
            remove \in {RemoveScan(fs, iterdir(fs, m, rev), <<>>, <<>>)}})

\* get() of computergroups: one request for the list, one per identity.
GetComputerGroups(fs, m, src, rev) ==
    LET api_query == ClassicGetData(src)
    IN  IF api_query.success
        THEN Only({Returned(st.fs, st.written, m, st.log) :
                st \in {SaveLoopDetail(
                          [fs |-> fs, written |-> {},
                           log |-> [EmptyLog EXCEPT !.remove = remove]],
                          m, api_query.data_objects, src.detailFail) :
                        remove \in {RemoveScan(fs, iterdir(fs, m, rev),
                                               api_query.data_objects, <<>>)}}})
        ELSE FailedToRetrieve(fs, m)

\* The modules whose get is def get(api_classic=None, api_universal=None).
LegacyModules ==
    {"accounts_groups", "advancedcomputersearches", "computercheckin",
     "directorybindings"}

\* Get as it would be if every module took 'categories' for its own name
\* and directory.
GetAsCategories(fs, m, src, rev) == GetPaginated(fs, "categories", src, rev)

\* data_function.get(api_classic, api_universal, repo_path) of module m.  The
\* call passes three positional arguments: a get() that takes two raises
\* TypeError before its first statement.
Get(fs, m, src, rev) ==
    IF m \in LegacyModules THEN Raised(fs)
    ELSE IF m = "computergroups" THEN GetComputerGroups(fs, m, src, rev)
    ELSE GetPaginated(fs, m, src, rev)

\* ------------------------------------------------------------------ state
VARIABLES
    fs,         \* the repository's working tree: path -> text
    fs0,        \* the working tree when the current cycle began
    mods,       \* data_functions: the module of every unit, in load order
    source,     \* what the upstream source of every unit answers in this run
    tstate,     \* per unit: "new", "blocked" (in LIMIT.acquire), "running"
                \*           (in the target), "returned" or "raised" (not alive)
    ret,        \* per unit: ThreadFunction._return
    handled,    \* per unit: ThreadFunction._is_handled
    written,    \* per unit: the files its get() wrote in this cycle
    sem,        \* the counter of ThreadFunction.LIMIT
    started,    \* len(threads): the units created and started so far
    mainpc,     \* where main is
    inactive,   \* the list the for loop of line 259 still has to go through
    logs,       \* the dict logs, in insertion order
    sink,       \* the commits handed to the repository, in order
    cycle,      \* 1 in the first cycle, 2 in the one that follows it
    pager,      \* the pagination loop of a runner: page, remainder, data_objects
    rmFailed,   \* the files for which repo.remove() returned False in this cycle
    errlog      \* the failure messages the runners logged in this cycle

vars == <<fs, fs0, mods, source, tstate, ret, handled, written, sem, started,
          mainpc, inactive, logs, sink, cycle, pager, rmFailed, errlog>>

Units == 1..Len(mods)

\* No pagination loop is observed step by step.
NoPager == [page |-> 0, remainder |-> FALSE, data_objects |-> <<>>,
            requested |-> <<>>, raised |-> FALSE, latest |-> 0]

threadVars == <<tstate, ret, handled, sem, started, inactive>>

\* ------------------------------------------------------- ThreadFunction
\* Acquire as it would be if acquire() returned without waiting for a token.
AcquireNoWait(i) ==
    /\ tstate[i] = "blocked"
    /\ sem' = sem - 1
    /\ tstate' = [tstate EXCEPT ![i] = "running"]
    /\ UNCHANGED <<fs, fs0, mods, source, ret, handled, written, started,
                   mainpc, inactive, logs, sink, cycle,
                   pager, rmFailed, errlog>>

\* run(), first statement: self.LIMIT.acquire() blocks while the counter is 0.
Acquire(i) ==
    /\ tstate[i] = "blocked"
    /\ sem > 0
    /\ sem' = sem - 1
    /\ tstate' = [tstate EXCEPT ![i] = "running"]
    /\ UNCHANGED <<fs, fs0, mods, source, ret, handled, written, started,
                   mainpc, inactive, logs, sink, cycle,
                   pager, rmFailed, errlog>>

\* run(), the rest: self._return = self._target(...); an exception of the
\* target ends the thread with _return still None.
RunTarget(i) ==
    /\ tstate[i] = "running"
    /\ \E rev \in BOOLEAN :
         \E out \in {Get(fs, mods[i], source[i], rev)} :
             /\ fs' = out.fs
             /\ ret' = [ret EXCEPT ![i] = out.ret]
             /\ written' = [written EXCEPT ![i] = out.written]
             /\ tstate' = [tstate EXCEPT
                             ![i] = IF out.raised THEN "raised" ELSE "returned"]
             /\ errlog' = errlog \cup out.errors
    /\ UNCHANGED <<fs0, mods, source, handled, sem, started, mainpc, inactive,
                   logs, sink, cycle, pager, rmFailed>>

\* Thread.is_alive()
is_alive(i) == tstate[i] \in {"blocked", "running"}

\* ----------------------------------------------------------------- main
\* DictUpdate as it would be if main assigned logs = return_log.
DictAssign(d, entry) == <<entry>>

\* logs.update(return_log): the key is the module's name.
DictUpdate(d, entry) ==
    IF \E k \in 1..Len(d) : d[k].module = entry.module
    THEN [k \in 1..Len(d) |-> IF d[k].module = entry.module THEN entry ELSE d[k]]
    ELSE Append(d, entry)

\* [t for t in threads if <cond>], in the order of threads
RECURSIVE Filter(_, _, _)
Filter(i, n, keep) ==
    IF i > n THEN <<>>
    ELSE (IF i \in keep THEN <<i>> ELSE <<>>) \o Filter(i + 1, n, keep)

\* "Start threads": threads.append(ThreadFunction(...)); .start()
StartThread ==
    /\ mainpc = "start"
    /\ started < Len(mods)
    /\ started' = started + 1
    /\ tstate' = [tstate EXCEPT ![started + 1] = "blocked"]
    /\ UNCHANGED <<fs, fs0, mods, source, ret, handled, written, sem, mainpc,
                   inactive, logs, sink, cycle,
                   pager, rmFailed, errlog>>

\* Poll as it would be if the for statement listed every unhandled thread,
\* alive or not.
PollAlive ==
    /\ mainpc \in {"start", "poll"}
    /\ started = Len(mods)
    /\ LET unhandled_threads == {t \in 1..started : ~handled[t]}
       IN  IF unhandled_threads = {}
           THEN /\ mainpc' = "add"
                /\ inactive' = <<>>
           ELSE /\ mainpc' = "collect"
                /\ inactive' = Filter(1, started,
                                  unhandled_threads)
    /\ UNCHANGED <<fs, fs0, mods, source, tstate, ret, handled, written, sem,
                   started, logs, sink, cycle,
                   pager, rmFailed, errlog>>

\* unhandled_threads = [...]; while len(unhandled_threads) != 0; the list of
\* the for statement: the unhandled threads that are not alive.
Poll ==
    /\ mainpc \in {"start", "poll"}
    /\ started = Len(mods)
    /\ LET unhandled_threads == {t \in 1..started : ~handled[t]}
       IN  IF unhandled_threads = {}
           THEN /\ mainpc' = "add"
                /\ inactive' = <<>>
           ELSE /\ mainpc' = "collect"
                /\ inactive' = Filter(1, started,
                                  {a \in unhandled_threads : ~is_alive(a)})
    /\ UNCHANGED <<fs, fs0, mods, source, tstate, ret, handled, written, sem,
                   started, logs, sink, cycle,
                   pager, rmFailed, errlog>>

\* Collect as it would be if get_value released the limiter twice.
\* (join, _is_handled = True, LIMIT.release() twice, logs.update)
CollectReleasesTwice ==
    /\ mainpc = "collect"
    /\ inactive # <<>>
    /\ LET t == Head(inactive)
       IN  /\ handled' = [handled EXCEPT ![t] = TRUE]
           /\ sem' = sem + 2
           /\ IF ret[t].isNone
              THEN /\ mainpc' = "crashed"
                   /\ logs' = logs
              ELSE /\ mainpc' = mainpc
                   /\ logs' = DictUpdate(logs, ret[t])
    /\ inactive' = Tail(inactive)
    /\ UNCHANGED <<fs, fs0, mods, source, tstate, ret, written, started, sink,
                   cycle,
                   pager, rmFailed, errlog>>

\* One round of the for loop: return_log = inactive_thread.get_value()
\* (join, _is_handled = True, LIMIT.release()), then logs.update(return_log),
\* which raises TypeError when return_log is None.
Collect ==
    /\ mainpc = "collect"
    /\ inactive # <<>>
    /\ LET t == Head(inactive)
       IN  /\ handled' = [handled EXCEPT ![t] = TRUE]
           /\ sem' = sem + 1
           /\ IF ret[t].isNone
              THEN /\ mainpc' = "crashed"
                   /\ logs' = logs
              ELSE /\ mainpc' = mainpc
                   /\ logs' = DictUpdate(logs, ret[t])
    /\ inactive' = Tail(inactive)
    /\ UNCHANGED <<fs, fs0, mods, source, tstate, ret, written, started, sink,
                   cycle,
                   pager, rmFailed, errlog>>

\* The for loop is through: unhandled_threads is computed again.
EndRound ==
    /\ mainpc = "collect"
    /\ inactive = <<>>
    /\ mainpc' = "poll"
    /\ UNCHANGED <<fs, fs0, mods, source, tstate, ret, handled, written, sem,
                   started, inactive, logs, sink, cycle,
                   pager, rmFailed, errlog>>

\* repo.add(record['file']); repo.commit(f'<kind> {id}:{name}')
Commit(kind, record) ==
    [kind |-> kind, file |-> record.file, id |-> record.id, name |-> record.name]

\* CommitList as it would be if a list were committed from its last record.
RECURSIVE CommitListBackwards(_, _)
CommitListBackwards(kind, records) ==
    IF records = <<>> THEN <<>>
    ELSE Append(CommitListBackwards(kind, Tail(records)), Commit(kind, records[1]))

\* for record in logs[module][key]: one add and one commit per record
RECURSIVE CommitList(_, _)
CommitList(kind, records) ==
    IF records = <<>> THEN <<>>
    ELSE <<Commit(kind, records[1])>> \o CommitList(kind, Tail(records))

RECURSIVE CommitAll(_, _, _)
CommitAll(kind, key, d) ==
    IF d = <<>> THEN <<>>
    ELSE CommitList(kind, d[1].report[key]) \o CommitAll(kind, key, Tail(d))

\* for module in logs: for add in logs[module]['add']: add and commit
CommitAdds ==
    /\ mainpc = "add"
    /\ sink' = sink \o CommitAll("Created", "add", logs)
    /\ mainpc' = "diff"
    /\ UNCHANGED <<fs, fs0, mods, source, tstate, ret, handled, written, sem,
                   started, inactive, logs, cycle,
                   pager, rmFailed, errlog>>

\* for module in logs: for diff in logs[module]['diff']: add and commit
CommitDiffs ==
    /\ mainpc = "diff"
    /\ sink' = sink \o CommitAll("Changed", "diff", logs)
    /\ mainpc' = "remove"
    /\ UNCHANGED <<fs, fs0, mods, source, tstate, ret, handled, written, sem,
                   started, inactive, logs, cycle,
                   pager, rmFailed, errlog>>

\* RemoveList as it would be if a failed repo.remove() ended the loop.
RECURSIVE RemoveListStopsOnFailure(_, _, _)
RemoveListStopsOnFailure(st, records, rmFails) ==
    IF records = <<>> THEN st
    ELSE LET r == records[1]
         IN  IF r.file \in rmFails
             THEN [fs |-> Unlink(st.fs, r.file), sink |-> st.sink]
             ELSE Only({RemoveListStopsOnFailure(next, Tail(records), rmFails) :
                    next \in {[fs |-> Unlink(st.fs, r.file),
                               sink |-> Append(st.sink, Commit("Removed", r))]}})

\* RemoveList as it would be without the unlink() of the else branch.
RECURSIVE RemoveListNoUnlink(_, _, _)
RemoveListNoUnlink(st, records, rmFails) ==
    IF records = <<>> THEN st
    ELSE LET r == records[1]
         IN  Only({RemoveListNoUnlink(next, Tail(records), rmFails) :
                next \in {IF r.file \in rmFails THEN st
                          ELSE [fs |-> Unlink(st.fs, r.file),
                                sink |-> Append(st.sink, Commit("Removed", r))]}})

\* The removal loop over one list of records: repo.remove(file) deletes the
\* file and is followed by a commit; when it fails (file in rmFails) the file
\* is unlinked and nothing is committed.
RECURSIVE RemoveList(_, _, _)
RemoveList(st, records, rmFails) ==
    IF records = <<>> THEN st
    ELSE LET r == records[1]
         IN  Only({RemoveList(next, Tail(records), rmFails) :
                next \in {[fs |-> Unlink(st.fs, r.file),
                           sink |-> IF r.file \in rmFails THEN st.sink
                                    ELSE Append(st.sink, Commit("Removed", r))]}})

RECURSIVE RemoveAll(_, _, _)
RemoveAll(st, d, rmFails) ==
    IF d = <<>> THEN st
    ELSE Only({RemoveAll(next, Tail(d), rmFails) :
                  next \in {RemoveList(st, d[1].report.remove, rmFails)}})

RemoveFiles(d) ==
    UNION {{d[k].report.remove[j].file : j \in 1..Len(d[k].report.remove)} :
              k \in 1..Len(d)}

\* for module in logs: for remove in logs[module]['remove']: ...; repo.push()
CommitRemoves ==
    /\ mainpc = "remove"
    /\ \E rmFails \in SUBSET RemoveFiles(logs) :
         \E st \in {RemoveAll([fs |-> fs, sink |-> sink], logs, rmFails)} :
             /\ fs' = st.fs
             /\ sink' = st.sink
             /\ rmFailed' = rmFails
    /\ mainpc' = "done"
    /\ UNCHANGED <<fs0, mods, source, tstate, ret, handled, written, sem,
                   started, inactive, logs, cycle, pager, errlog>>

\* ------------------------------------------------- the scheduler's cycle
\* A fetched object; script is the scriptContents of a scripts object.
Obj(id, name, script) == [id |-> id, name |-> name, script |-> script]

\* The files of one persisted identity of module m.
Persisted(m, obj) ==
    IF Len(Suffixes(m)) = 1
    THEN [p \in {FilePath(m, obj.id, "")} |-> WriteText(Dumps(obj))]
    ELSE [p \in {FilePath(m, obj.id, ".data"), FilePath(m, obj.id, ".script")} |->
            IF p[3] = ".data" THEN WriteText(Dumps(obj)) ELSE WriteText(obj.script)]

\* The modules main loads (modules_path.glob('*.py')), in the order it does.
LoadOrder == <<"categories", "scripts", "computergroups", "computers-inventory">>

Loaded == SubSeq(LoadOrder, 1, NumUnits)

\* The scheduler's cycle starts from a repository in which every module has
\* the identities 1 and 3 persisted; upstream, 1 was renamed, 2 is new and 3
\* is gone, or the collection request is answered with a non-success response.
CycleStore ==
    LET objs == {<<m, id>> : m \in {Loaded[k] : k \in 1..Len(Loaded)}, id \in {1, 3}}
        files == UNION {DOMAIN Persisted(o[1], Obj(o[2], "Old", <<"a">>)) : o \in objs}
    IN  [p \in files |-> Persisted(p[1], Obj(IdInt(p[2]), "Old", <<"a">>))[p]]

CycleSources ==
    {[recs |-> <<Obj(1, "New", <<"a">>), Obj(2, "New", <<"b">>)>>,
      failAt |-> f, detailFail |-> {}] : f \in {0, 1}}

Init ==
    /\ mods = Loaded
    /\ fs = CycleStore
    /\ fs0 = fs
    /\ source \in [1..Len(Loaded) -> CycleSources]
    /\ tstate = [i \in 1..Len(Loaded) |-> "new"]
    /\ ret = [i \in 1..Len(Loaded) |-> NoneValue]
    /\ handled = [i \in 1..Len(Loaded) |-> FALSE]
    /\ written = [i \in 1..Len(Loaded) |-> {}]
    /\ sem = Ceiling
    /\ started = 0
    /\ mainpc = "start"
    /\ inactive = <<>>
    /\ logs = <<>>
    /\ sink = <<>>
    /\ cycle = 1
    /\ pager = NoPager
    /\ rmFailed = {}
    /\ errlog = {}

MainStep ==
    \/ StartThread
    \/ Poll
    \/ Collect
    \/ EndRound
    \/ CommitAdds
    \/ CommitDiffs
    \/ CommitRemoves

Next ==
    \/ \E i \in Units : Acquire(i)
    \/ \E i \in Units : RunTarget(i)
    \/ MainStep

Spec == Init /\ [][Next]_vars

\* Every started thread and the main thread are scheduled again and again.
FairSpec ==
    /\ Spec
    /\ \A i \in 1..NumUnits : WF_vars(Acquire(i)) /\ WF_vars(RunTarget(i))
    /\ WF_vars(MainStep)

\* ---------------------------------------------- one module, cycle by cycle
\* The cycle of a single module as main and its one thread go through it:
\* start, acquire, the target, get_value and logs.update in one step, then the
\* commit phase; a second cycle with the same upstream data follows.
SeqsUpTo(S, n) == UNION {[1..k -> S] : k \in 0..n}

Payloads == {<<"a">>, <<"b">>}

Objects(m) ==
    IF Len(Suffixes(m)) = 1
    THEN {Obj(id, name, <<>>) : id \in Ids, name \in Names}
    ELSE {Obj(id, name, script) : id \in Ids, name \in Names, script \in Payloads}

\* The stores a module can have left behind: any set of identities persisted.
StoreOf(m, ids) ==
    LET files == UNION {DOMAIN Persisted(m, Obj(id, "Old", <<"a">>)) : id \in ids}
    IN  [p \in files |-> Persisted(m, Obj(IdInt(p[2]), "Old", <<"a">>))[p]]

InitOne(m, store, src) ==
    /\ mods = <<m>>
    /\ fs = store
    /\ fs0 = store
    /\ source = <<src>>
    /\ tstate = <<"new">>
    /\ ret = <<NoneValue>>
    /\ handled = <<FALSE>>
    /\ written = <<{}>>
    /\ sem = Ceiling
    /\ started = 0
    /\ mainpc = "run"
    /\ inactive = <<>>
    /\ logs = <<>>
    /\ sink = <<>>
    /\ cycle = 1
    /\ pager = NoPager
    /\ rmFailed = {}
    /\ errlog = {}

InitDiff ==
    \E m \in {"categories", "scripts"}, ids \in SUBSET Ids, f \in {0, 1} :
      \E recs \in SeqsUpTo(Objects(m), MaxFetch) :
        InitOne(m, StoreOf(m, ids),
                [recs |-> recs, failAt |-> f, detailFail |-> {}])

\* The unit runs get() and main collects it: logs.update(return_log) raises
\* TypeError when the target raised and _return is None.
RunModule ==
    /\ mainpc = "run"
    /\ \E rev \in BOOLEAN :
         \E out \in {Get(fs, mods[1], source[1], rev)} :
             /\ fs' = out.fs
             /\ ret' = <<out.ret>>
             /\ written' = <<out.written>>
             /\ tstate' = <<IF out.raised THEN "raised" ELSE "returned">>
             /\ IF out.raised
                THEN /\ mainpc' = "crashed"
                     /\ logs' = logs
                ELSE /\ mainpc' = "add"
                     /\ logs' = DictUpdate(logs, out.ret)
             /\ errlog' = errlog \cup out.errors
    /\ handled' = <<TRUE>>
    /\ started' = 1
    /\ UNCHANGED <<fs0, mods, source, sem, inactive, sink, cycle, pager,
                   rmFailed>>

\* The program is started again: the same upstream data, the repository as
\* the first cycle left it.
NextCycle ==
    /\ mainpc = "done"
    /\ cycle = 1
    /\ cycle' = 2
    /\ fs0' = fs
    /\ tstate' = <<"new">>
    /\ ret' = <<NoneValue>>
    /\ handled' = <<FALSE>>
    /\ written' = <<{}>>
    /\ started' = 0
    /\ mainpc' = "run"
    /\ logs' = <<>>
    /\ sink' = <<>>
    /\ rmFailed' = {}
    /\ errlog' = {}
    /\ UNCHANGED <<fs, mods, source, sem, inactive, pager>>

NextDiff ==
    \/ RunModule
    \/ CommitAdds
    \/ CommitDiffs
    \/ CommitRemoves
    \/ NextCycle

SpecDiff == InitDiff /\ [][NextDiff]_vars

\* ------------------------------------------------- the payload file-unit
\* One scripts identity whose payload file holds any text and whose fetched
\* payload is any text.
RECURSIVE TextsUpTo(_)
TextsUpTo(n) ==
    IF n = 0 THEN {<<>>}
    ELSE TextsUpTo(n - 1) \cup
         {Append(t, c) : t \in {u \in TextsUpTo(n - 1) : Len(u) = n - 1}, c \in Chars}

Texts == TextsUpTo(MaxTextLen)

InitText ==
    \E old \in Texts, new \in Texts, name \in Names :
        InitOne("scripts",
                Persisted("scripts", Obj(1, "Old", old)),
                [recs |-> <<Obj(1, name, new)>>, failAt |-> 0, detailFail |-> {}])

SpecText == InitText /\ [][NextDiff]_vars

\* ------------------------------------- a module with a detail request
\* computergroups: one request for the list, one request per identity, any
\* of which can be answered with a non-success response.
InitDetail ==
    \E ids \in SUBSET Ids, f \in {0, 1}, detailFail \in SUBSET Ids :
      \E recs \in SeqsUpTo(Objects("computergroups"), MaxFetch) :
        InitOne("computergroups", StoreOf("computergroups", ids),
                [recs |-> recs, failAt |-> f, detailFail |-> detailFail])

SpecDetail == InitDetail /\ [][NextDiff]_vars

\* ------------------------------------------- any module main loads
\* One cycle of any one of the modules in the modules directory whose get()
\* is modelled; the collection request can fail on its first or second page.
LoadableModules ==
    {"categories", "scripts", "computergroups", "computers-inventory"}
        \cup LegacyModules

InitLoad ==
    \E m \in LoadableModules, ids \in SUBSET Ids, f \in {0, 1, 2} :
      \E recs \in SeqsUpTo(Objects(m), MaxFetch) :
        InitOne(m, StoreOf(m, ids),
                [recs |-> recs, failAt |-> f, detailFail |-> {}])

SpecLoad == InitLoad /\ [][NextDiff]_vars

\* ------------------------------------------------- the pagination loop
\* The loop "while remainder:" of a paginated module, one request per step,
\* against a scripted source: any totalCount and any number of records up to
\* the requested size on each of its first pages.
ScriptedSources ==
    UNION {
      {[pages |-> [p \in 1..n |->
                     [totalCount |-> totals[p],
                      results |-> [k \in 1..counts[p] |-> <<p - 1, k>>]]],
        tail |-> tail] :
          totals \in [1..n -> 0..MaxTotal],
          counts \in [1..n -> 0..PageSize],
          tail \in {"grow", "stop"}} :
      n \in 0..MaxPages}

\* Past the pages a scripted source has answers of its own for, the model
\* keeps the parity of page only.
Wrap(page) == IF page > MaxPages + 2 THEN page - 2 ELSE page

InitPage ==
    /\ mods = <<"categories">>
    /\ fs = StoreOf("categories", {})
    /\ fs0 = fs
    /\ source \in {<<src>> : src \in ScriptedSources}
    /\ tstate = <<"running">>
    /\ ret = <<NoneValue>>
    /\ handled = <<FALSE>>
    /\ written = <<{}>>
    /\ sem = Ceiling - 1
    /\ started = 1
    /\ mainpc = "poll"
    /\ inactive = <<>>
    /\ logs = <<>>
    /\ sink = <<>>
    /\ cycle = 1
    /\ pager = [page |-> 0, remainder |-> TRUE, data_objects |-> <<>>,
                requested |-> <<>>, raised |-> FALSE, latest |-> 0]
    /\ rmFailed = {}
    /\ errlog = {}

\* One iteration: api_query = api_universal.get_data(..., page=page, size=size);
\* remainder = ...; data_objects.extend(...); page += 1
PageStep ==
    /\ pager.remainder
    /\ LET api_query == UapiGetData(source[1], pager.page, PageSize)
           it == LoopBody(api_query, pager.page, PageSize, pager.data_objects)
       IN  pager' = [page |-> Wrap(it.page),
                     remainder |-> it.remainder,
                     data_objects |-> it.data_objects,
                     requested |-> IF Len(pager.requested) <= MaxPages
                                   THEN Append(pager.requested, pager.page)
                                   ELSE pager.requested,
                     raised |-> it.raised,
                     latest |-> api_query.totalCount]
    /\ UNCHANGED <<fs, fs0, mods, source, tstate, ret, handled, written, sem,
                   started, mainpc, inactive, logs, sink, cycle, rmFailed,
                   errlog>>

SpecPage == InitPage /\ [][PageStep]_vars

\* The thread that runs the loop is scheduled again and again.
FairPage == SpecPage /\ WF_vars(PageStep)

\* ================================================================ claims
\* A unit holds a slot of LIMIT from its acquire() until get_value() releases
\* for it.
Holds(i) == tstate[i] \in {"running", "returned", "raised"} /\ ~handled[i]

Holding == {i \in Units : Holds(i)}

\* main has left the collection loop.
SchedulerReturned == mainpc \in {"add", "diff", "remove", "done"}

\* The collection request of unit i is answered with a non-success response.
FetchFails(i) == source[i].failAt # 0

\* C1: in every reachable state of every interleaving, at most Ceiling units
\* have acquired a slot of ThreadFunction.LIMIT and not yet released it.
C1_ConcurrencyCeiling == Cardinality(Holding) <= Ceiling

\* C1 witness: the ceiling is reached while another unit waits in acquire().
C1_Witness ==
    /\ Cardinality(Holding) = Ceiling
    /\ \E i \in Units : tstate[i] = "blocked"

\* C2: the scheduler eventually leaves its collection loop with every unit
\* not alive and handled, whatever the units' targets do when they end.
C2_SchedulerReturns ==
    <>(SchedulerReturned /\ \A i \in Units : handled[i] /\ ~is_alive(i))

\* C2, the case in which every target returns: the scheduler returns.
C2_ReturnsWhenNoTargetRaises ==
    (\A i \in Units : FetchFails(i) => mods[i] = "computergroups")
        => <>(SchedulerReturned /\ \A i \in Units : handled[i] /\ ~is_alive(i))

\* C3: when a unit's target raises, the scheduler still gets to the end of
\* its collection loop: the error of one module never ends the run.
C3_ModuleErrorContained ==
    (\E i \in Units : tstate[i] = "raised") => mainpc # "crashed"

\* C4: a unit whose collection request fails returns the report of its module
\* with no records instead of raising, whatever its module.
C4_FailedFetchEmptyReport ==
    \A i \in Units :
        (FetchFails(i) /\ tstate[i] \in {"returned", "raised"})
            => /\ tstate[i] = "returned"
               /\ ret[i] = [isNone |-> FALSE, module |-> mods[i],
                            report |-> EmptyLog]

\* The files of the commits handed to the repository so far.
Committed == {sink[k].file : k \in 1..Len(sink)}

\* The files named by the records of a report.
RecordFiles(report) ==
    {report.add[k].file : k \in 1..Len(report.add)}
    \cup {report.diff[k].file : k \in 1..Len(report.diff)}
    \cup {report.remove[k].file : k \in 1..Len(report.remove)}

\* C5: in a cycle in which a module fails, once main has ended every file a
\* successful module wrote has been handed to the repository in a commit.
C5_SiblingChangesCommitted ==
    ((\E j \in Units : FetchFails(j)) /\ mainpc \in {"done", "crashed"})
        => \A i \in Units :
              tstate[i] = "returned" => written[i] \subseteq Committed

\* ------------------------------------------------ one module: C6 .. C10
\* The module's get() has returned and main has its report.
PostRun == mainpc \in {"add", "diff", "remove", "done"} /\ Len(logs) = 1

Module == mods[1]

Recs == source[1].recs

Report == logs[1].report

FetchedIds == {Recs[k].id : k \in 1..Len(Recs)}

\* The identities with a persisted entry in working tree tree.
PersistedIds(tree) == {IdInt(p[2]) : p \in DOMAIN tree}

\* The file-units of identity id in module m.
UnitFiles(m, id) == {FilePath(m, id, Suffixes(m)[k]) : k \in 1..Len(Suffixes(m))}

\* How many records of a list name file f, or identity id.
CountFile(records, f) == Cardinality({k \in 1..Len(records) : records[k].file = f})

CountId(records, id) ==
    Cardinality({k \in 1..Len(records) : records[k].file[2] = IdStr(id)})

\* The source serves every identity with one content.
OneContent == \A j, k \in 1..Len(Recs) : Recs[j].id = Recs[k].id => Recs[j] = Recs[k]

\* The object fetched for identity id.
Fetched(id) == Recs[CHOOSE k \in 1..Len(Recs) : Recs[k].id = id]

\* C6: in the second of two cycles with the same upstream data (every
\* identity served with one content) the module reports no record, writes no
\* file and leaves the working tree as the first cycle left it.
C6_Idempotent ==
    (cycle = 2 /\ PostRun /\ OneContent)
        => /\ Report = EmptyLog
           /\ written[1] = {}
           /\ fs = fs0

\* C6 witness: a second cycle has ended whose first cycle wrote a renamed or
\* new object.
C6_Witness ==
    /\ cycle = 2
    /\ mainpc = "done"
    /\ OneContent
    /\ \E k \in 1..Len(Recs) : Recs[k].name = "New"

\* C7 as stated: every fetched identity without a persisted entry is the
\* identity of exactly one 'add' record.
C7_AddedOncePerIdentity ==
    PostRun => \A id \in FetchedIds \ PersistedIds(fs0) :
                   CountId(Report.add, id) = 1

\* C7 amended: every fetched identity without a persisted entry has exactly
\* one 'add' record for each of its file-units and no other 'add' record,
\* also when the source serves it on more than one page.
C7_AddedOncePerUnit ==
    PostRun => \A id \in FetchedIds \ PersistedIds(fs0) :
                   /\ \A f \in UnitFiles(Module, id) : CountFile(Report.add, f) = 1
                   /\ CountId(Report.add, id) = Len(Suffixes(Module))

\* C7 witness: a scripts identity new to the store, served twice.
C7_Witness ==
    /\ PostRun
    /\ Module = "scripts"
    /\ \E j, k \in 1..Len(Recs) :
          j # k /\ Recs[j].id = Recs[k].id /\ Recs[j].id \notin PersistedIds(fs0)

\* C8 as stated: when the cycle is over, every persisted identity the fetch
\* lacks is the identity of exactly one 'remove' record and has no file left.
C8_RemovedOncePerIdentity ==
    (PostRun /\ mainpc = "done")
        => \A id \in PersistedIds(fs0) \ FetchedIds :
              /\ CountId(Report.remove, id) = 1
              /\ \A f \in UnitFiles(Module, id) : ~Exists(fs, f)

\* C8 amended: when the cycle is over, every persisted identity the fetch
\* lacks has exactly one 'remove' record for each of its persisted files and
\* no other record, and none of its files is left.
C8_RemovedOncePerUnit ==
    (PostRun /\ mainpc = "done")
        => \A id \in PersistedIds(fs0) \ FetchedIds :
              /\ \A f \in UnitFiles(Module, id) :
                    CountFile(Report.remove, f) = 1 /\ ~Exists(fs, f)
              /\ CountId(Report.remove, id) = Len(Suffixes(Module))
              /\ CountId(Report.add, id) = 0
              /\ CountId(Report.diff, id) = 0

\* C8 witness: a scripts identity is gone upstream and git rm failed for one
\* of its files.
C8_Witness ==
    /\ PostRun
    /\ mainpc = "done"
    /\ Module = "scripts"
    /\ \E id \in PersistedIds(fs0) \ FetchedIds :
          \E f \in UnitFiles(Module, id) : f \notin Committed

ScriptFile == FilePath("scripts", 1, ".script")

DataFile == FilePath("scripts", 1, ".data")

\* C10 as stated: a persisted file-unit is rewritten and reported as changed
\* if and only if its persisted content differs from the fetched content.
C10_ChangedIffContentDiffers ==
    (PostRun /\ cycle = 1)
        => /\ (ScriptFile \in written[1]) <=> (fs0[ScriptFile] # Recs[1].script)
           /\ (CountFile(Report.diff, ScriptFile) = 1)
                 <=> (fs0[ScriptFile] # Recs[1].script)
           /\ (DataFile \in written[1]) <=> (fs0[DataFile] # Dumps(Recs[1]))
           /\ (CountFile(Report.diff, DataFile) = 1)
                 <=> (fs0[DataFile] # Dumps(Recs[1]))

\* What the code does instead: the JSON unit is rewritten and reported iff
\* its content differs; the payload unit is rewritten and reported iff the two
\* texts differ as lists of lines, line terminators left aside; a rewritten
\* file holds the fetched text and any other file its old text.
PayloadChangedIffLinesDiffer ==
    (PostRun /\ cycle = 1)
        => LET old == fs0[ScriptFile]
               new == Recs[1].script
               changed == splitlines(old) # splitlines(new)
           IN  /\ (ScriptFile \in written[1]) <=> changed
               /\ CountFile(Report.diff, ScriptFile) = (IF changed THEN 1 ELSE 0)
               /\ fs[ScriptFile] = (IF changed THEN new ELSE old)
               /\ (DataFile \in written[1]) <=> (fs0[DataFile] # Dumps(Recs[1]))
               /\ CountFile(Report.diff, DataFile)
                    = (IF fs0[DataFile] # Dumps(Recs[1]) THEN 1 ELSE 0)
               /\ fs[DataFile] = Dumps(Recs[1])

\* ------------------------------------------------ one module: C11 .. C15
\* The content get() computes for the file-unit sfx of a fetched object.
UnitContent(obj, sfx) == IF sfx = ".script" THEN obj.script ELSE Dumps(obj)

\* Every fetched record of identity id has, for unit sfx, the content the
\* store held for it when the cycle began.
UnitUnchanged(id, sfx) ==
    /\ Exists(fs0, FilePath(Module, id, sfx))
    /\ \A j \in 1..Len(Recs) :
          Recs[j].id = id => UnitContent(Recs[j], sfx) = fs0[FilePath(Module, id, sfx)]

\* C11: a file-unit whose persisted content equals the fetched content is
\* not written, keeps its text and is named by no record of the report,
\* whatever the run does to the other identities.
C11_UnchangedSilent ==
    PostRun
        => \A id \in FetchedIds :
              \A k \in 1..Len(Suffixes(Module)) :
                 LET f == FilePath(Module, id, Suffixes(Module)[k])
                 IN  UnitUnchanged(id, Suffixes(Module)[k])
                       => /\ f \notin written[1]
                          /\ Exists(fs, f) /\ fs[f] = fs0[f]
                          /\ CountFile(Report.add, f) = 0
                          /\ CountFile(Report.diff, f) = 0
                          /\ CountFile(Report.remove, f) = 0

\* C11 witness: one identity is fetched as it is stored while the run adds,
\* changes or removes something else.
C11_Witness ==
    /\ PostRun
    /\ mainpc = "done"
    /\ \E id \in FetchedIds :
          \A k \in 1..Len(Suffixes(Module)) : UnitUnchanged(id, Suffixes(Module)[k])
    /\ Report # EmptyLog

\* The files a list of records names.
ListFiles(records) == {records[k].file : k \in 1..Len(records)}

\* C12: within one run of a module no file is named by more than one of the
\* lists 'add', 'diff' and 'remove', whatever the store and the fetched
\* sequence are.
C12_ListsDisjoint ==
    PostRun
        => /\ ListFiles(Report.add) \cap ListFiles(Report.diff) = {}
           /\ ListFiles(Report.add) \cap ListFiles(Report.remove) = {}
           /\ ListFiles(Report.diff) \cap ListFiles(Report.remove) = {}

\* The same when the source serves every identity with one content.
ListsDisjointWhenOneContent == OneContent => C12_ListsDisjoint

\* What a run of a two-unit module reports for identity id, fetched with one
\* content, when payloadChanged says which payload pairs count as changed.
UnitsIndependent(id, payloadChanged(_, _)) ==
    LET d == FilePath(Module, id, ".data")
        p == FilePath(Module, id, ".script")
        new == Fetched(id)
    IN  /\ id \notin PersistedIds(fs0)
            => /\ CountId(Report.add, id) = 2
               /\ CountFile(Report.add, d) = 1
               /\ CountFile(Report.add, p) = 1
        /\ (id \in PersistedIds(fs0) /\ fs0[d] = Dumps(new)
                                     /\ payloadChanged(fs0[p], new.script))
            => /\ CountId(Report.diff, id) = 1
               /\ CountFile(Report.diff, p) = 1
               /\ d \notin written[1]
        /\ (id \in PersistedIds(fs0) /\ fs0[d] # Dumps(new)
                                     /\ fs0[p] = new.script)
            => /\ CountId(Report.diff, id) = 1
               /\ CountFile(Report.diff, d) = 1
               /\ p \notin written[1]

TextsDiffer(old, new) == old # new

LinesDiffer(old, new) == splitlines(old) # splitlines(new)

\* C13: in a two-unit module an identity new to the store has exactly two
\* 'add' records, one per unit; a change of the payload alone gives exactly
\* one 'diff' record, for the payload file, and leaves the metadata file
\* unwritten; a change of the metadata alone gives exactly one 'diff' record,
\* for the metadata file.
C13_UnitsIndependent ==
    (PostRun /\ Module = "scripts" /\ OneContent)
        => \A id \in FetchedIds : UnitsIndependent(id, TextsDiffer)

\* The same for payload changes that change the list of lines.
UnitsIndependentByLines ==
    (PostRun /\ Module = "scripts" /\ OneContent)
        => \A id \in FetchedIds : UnitsIndependent(id, LinesDiffer)

\* The files a list of records names, in the order of the list.
FileSeq(records) == [k \in 1..Len(records) |-> records[k].file]

\* The unit files of identity id, in the order get() goes through them.
UnitFileSeq(id) ==
    [k \in 1..Len(Suffixes(Module)) |-> FilePath(Module, id, Suffixes(Module)[k])]

FirstOccurrence(p) == \A q \in 1..(p - 1) : Recs[q].id # Recs[p].id

\* The files new to the store, in the order the fetch produced their objects.
RECURSIVE NewInFetchOrder(_)
NewInFetchOrder(p) ==
    IF p > Len(Recs) THEN <<>>
    ELSE LET IsNew(f) == ~Exists(fs0, f)
         IN  (IF FirstOccurrence(p) THEN SelectSeq(UnitFileSeq(Recs[p].id), IsNew)
              ELSE <<>>) \o NewInFetchOrder(p + 1)

\* The stored files whose fetched content is another one, in fetch order.
RECURSIVE ChangedInFetchOrder(_)
ChangedInFetchOrder(p) ==
    IF p > Len(Recs) THEN <<>>
    ELSE LET IsChanged(f) == Exists(fs0, f) /\ fs0[f] # UnitContent(Recs[p], f[3])
         IN  (IF FirstOccurrence(p) THEN SelectSeq(UnitFileSeq(Recs[p].id), IsChanged)
              ELSE <<>>) \o ChangedInFetchOrder(p + 1)

\* The listed files whose identity the fetch lacks, in the order of a listing.
GoneInListingOrder(rev) ==
    LET IsGone(f) == IdInt(f[2]) \notin FetchedIds
    IN  SelectSeq(iterdir(fs0, Module, rev), IsGone)

\* Records j < k of a list stem from fetched objects p <= q.
InFetchOrder(records) ==
    \A j, k \in 1..Len(records) :
        j < k => \E pp, q \in 1..Len(Recs) :
                    /\ pp <= q
                    /\ Recs[pp].id = records[j].id /\ Recs[pp].name = records[j].name
                    /\ Recs[q].id = records[k].id /\ Recs[q].name = records[k].name

\* C14: the 'add' records and the 'diff' records of a report are in the order
\* in which the fetch produced their objects, and the 'remove' records are in
\* the order of a listing of the module's directory.
C14_EmissionOrder ==
    PostRun
        => /\ FileSeq(Report.add) = NewInFetchOrder(1)
           /\ InFetchOrder(Report.add)
           /\ InFetchOrder(Report.diff)
           /\ (OneContent => FileSeq(Report.diff) = ChangedInFetchOrder(1))
           /\ \E rev \in BOOLEAN : FileSeq(Report.remove) = GoneInListingOrder(rev)

\* C14 witness: a run with two 'add' records and two 'remove' records, the
\* directory listed from its last file to its first.
C14_Witness ==
    /\ PostRun
    /\ Len(Report.add) = 2
    /\ Len(Report.remove) = 2
    /\ Report.remove[1].file[3] = ".script"

\* ------------------------------------------------ the commit phase: C15
\* One commit per record of a list, in the order of the list.
CommitsOf(kind, records) == [k \in 1..Len(records) |-> Commit(kind, records[k])]

\* The commits of the sink that are about files of module m, in order.
ModuleSink(m) ==
    LET OfModule(c) == c.file[1] = m
    IN  SelectSeq(sink, OfModule)

\* C15 as stated: when the commit phase is over, the sink has, for every
\* module, one commit per record: the 'add' records, then the 'diff' records,
\* then the 'remove' records, each list in its order.
C15_CommitPerRecordInOrder ==
    mainpc = "done"
        => \A k \in 1..Len(logs) :
              ModuleSink(logs[k].module)
                = CommitsOf("Created", logs[k].report.add)
                  \o CommitsOf("Changed", logs[k].report.diff)
                  \o CommitsOf("Removed", logs[k].report.remove)

\* C15 amended: the same, with a commit for a 'remove' record only when
\* repo.remove() succeeded for its file.
C15_CommitOrder ==
    mainpc = "done"
        => \A k \in 1..Len(logs) :
              LET RmDone(r) == r.file \notin rmFailed
              IN  ModuleSink(logs[k].module)
                    = CommitsOf("Created", logs[k].report.add)
                      \o CommitsOf("Changed", logs[k].report.diff)
                      \o CommitsOf("Removed",
                                    SelectSeq(logs[k].report.remove, RmDone))

\* C15 witness: the commit phase is over for a module with records in all
\* three lists, more than one of them in 'add', and repo.remove() failed once.
C15_Witness ==
    /\ mainpc = "done"
    /\ rmFailed # {}
    /\ \E k \in 1..Len(logs) :
          /\ Len(logs[k].report.add) > 1
          /\ logs[k].report.diff # <<>>
          /\ logs[k].report.remove # <<>>

\* ------------------------------------------- the pagination loop: C16, C17
\* The loop has made a request and has been left.
LoopLeft == ~pager.remainder /\ pager.requested # <<>>

\* The records of the pages listed in pages, page after page.
RECURSIVE RecordsOf(_)
RecordsOf(pages) ==
    IF pages = <<>> THEN <<>>
    ELSE UapiGetData(source[1], pages[1], PageSize).results \o RecordsOf(Tail(pages))

\* The loop requests the pages 0, 1, 2, ... and collects every record of
\* every page it requested.
CollectsRequestedPages ==
    /\ Len(pager.requested) <= MaxPages
          => pager.requested = [k \in 1..Len(pager.requested) |-> k - 1]
    /\ LoopLeft => pager.data_objects = RecordsOf(pager.requested)

\* C16: the loop requests pages 0, 1, 2, ..., goes on as long as the records
\* returned so far are fewer than the total the latest page reported, is left
\* when they have reached it, and has then collected every record of every
\* requested page.
C16_StopsWhenTotalReached ==
    /\ CollectsRequestedPages
    /\ LoopLeft => Len(pager.data_objects) >= pager.latest
    /\ (pager.remainder /\ pager.requested # <<>>)
          => Len(pager.data_objects) < pager.latest

\* What the loop does instead: it is left when the number of pages requested
\* times the page size has reached the latest total.
StopsWhenPagesCoverTotal ==
    /\ CollectsRequestedPages
    /\ (LoopLeft /\ Len(pager.requested) <= MaxPages)
          => Len(pager.requested) * PageSize >= pager.latest
    /\ (pager.remainder /\ 0 < Len(pager.requested) /\ Len(pager.requested) <= MaxPages)
          => Len(pager.requested) * PageSize < pager.latest

\* C17: whatever the source answers, the loop is left after finitely many
\* requests.
C17_LoopTerminates == <>(~pager.remainder)

\* ------------------------------------------- the detail request: C18
\* The fetched identities whose detail request fails.
DetailFailed == FetchedIds \cap source[1].detailFail

\* The list request succeeded and get() has returned.
ListFetched == PostRun /\ source[1].failAt = 0

\* An identity whose detail request fails keeps its files as they were and
\* has no record, and the other identities are handled as they would be.
DetailFailureSkipsIdentity ==
    ListFetched
        => /\ \A id \in DetailFailed :
                 /\ \A f \in UnitFiles(Module, id) :
                       /\ Exists(fs, f) <=> Exists(fs0, f)
                       /\ Exists(fs0, f) => fs[f] = fs0[f]
                       /\ f \notin written[1]
                 /\ CountId(Report.add, id) = 0
                 /\ CountId(Report.diff, id) = 0
                 /\ CountId(Report.remove, id) = 0
           /\ \A id \in FetchedIds \ DetailFailed :
                 /\ id \notin PersistedIds(fs0) => CountId(Report.add, id) = 1
                 /\ \A f \in UnitFiles(Module, id) : Exists(fs, f)
           /\ \A id \in PersistedIds(fs0) \ FetchedIds :
                 CountId(Report.remove, id) = 1

\* C18: a failed detail request skips only its identity: the identity's
\* files stay as they were, it has no record, the failure is logged, and
\* every other identity of the module is handled.
C18_DetailFailureSkippedAndLogged ==
    /\ DetailFailureSkipsIdentity
    /\ ListFetched
          => \A id \in DetailFailed :
                \E e \in errlog : e.module = Module /\ e.id = IdStr(id)

\* ------------------------------------------------ the removal phase: C19
\* The 'Removed' commits of the sink.
RemovedCommits == {k \in 1..Len(sink) : sink[k].kind = "Removed"}

\* C19: when the removal phase is over, no file named by a 'remove' record
\* exists, whether repo.remove() succeeded for it or not; a record has its
\* 'Removed' commit exactly when repo.remove() succeeded for its file, and
\* there is no other 'Removed' commit.
C19_RemovalBestEffort ==
    mainpc = "done"
        => /\ \A k \in 1..Len(logs) :
                 \A j \in 1..Len(logs[k].report.remove) :
                    LET r == logs[k].report.remove[j]
                    IN  /\ ~Exists(fs, r.file)
                        /\ (\E c \in RemovedCommits : sink[c] = Commit("Removed", r))
                              <=> r.file \notin rmFailed
           /\ Cardinality(RemovedCommits)
                 = Cardinality(RemoveFiles(logs) \ rmFailed)

\* C19 witness: repo.remove() failed for one record and succeeded for a
\* record after it.
C19_Witness ==
    /\ mainpc = "done"
    /\ \E k \in 1..Len(logs) :
          \E i, j \in 1..Len(logs[k].report.remove) :
             /\ i < j
             /\ logs[k].report.remove[i].file \in rmFailed
             /\ logs[k].report.remove[j].file \notin rmFailed

\* ------------------------------------------------ the final report: C20
\* The entry of logs for module m when its fetch succeeded and nothing had
\* changed: what get() returns with three empty lists.
UnchangedEntry(m) == Returned(fs, {}, m, EmptyLog).ret

\* C20: when main has collected every unit, the aggregated report has, for
\* every module whose collection request failed, an entry that differs from
\* the entry of a module that succeeded with no changes.
C20_FailureDistinguished ==
    SchedulerReturned
        => \A i \in Units :
              FetchFails(i)
                => \E k \in 1..Len(logs) :
                      /\ logs[k].module = mods[i]
                      /\ logs[k] # UnchangedEntry(mods[i])

\* ------------------------------------------------ any loaded module: C21
\* main has started the unit and collected it, or has died doing so.
Dispatched == mainpc # "run"

\* C21: every module main loads, run with main's call, returns a report
\* keyed by its module name with the lists 'add', 'diff' and 'remove', so
\* that logs has one such entry for the module once it is collected (here
\* when its collection request succeeds).
C21_EveryModuleReports ==
    (Dispatched /\ source[1].failAt = 0)
        => /\ mainpc # "crashed"
           /\ Len(logs) = 1
           /\ logs[1].module = mods[1]
           /\ DOMAIN logs[1].report = {"add", "diff", "remove"}

\* The same for the modules whose get() takes the repository path.
ModulesWithRepoPathReport ==
    mods[1] \notin LegacyModules => C21_EveryModuleReports

\* ------------------------------------------- the aggregated report: C22
\* The reports module unit i returns when run alone on the initial store.
ReportsAlone(i) == {Get(fs0, mods[i], source[i], rev).ret : rev \in BOOLEAN}

\* logs as a mapping: one entry per dispatched module, which is the report
\* that module returns run alone, whatever the order of the entries.
OneEntryPerModule ==
    /\ Len(logs) = Len(mods)
    /\ \A i \in Units :
         \E k \in 1..Len(logs) :
             /\ logs[k].module = mods[i]
             /\ logs[k] \in ReportsAlone(i)

\* C22: the aggregated report does not depend on the order in which the
\* units complete or are collected: when the scheduler has returned, logs
\* holds exactly one entry per dispatched module, the same for every
\* interleaving.
C22_ReportOrderIndependent == SchedulerReturned => OneEntryPerModule

\* The units were collected in another order than they were started.
C22_Witness ==
    /\ SchedulerReturned
    /\ Len(logs) = Len(mods)
    /\ logs[1].module # mods[1]

\* ---------------------------------------------- Running -> Completed: C23
\* The units whose target is running.
Running == {i \in Units : tstate[i] = "running"}

\* The units whose thread has terminated, by a return or an exception.
Completed == {i \in Units : tstate[i] \in {"returned", "raised"}}

\* C23: the token of a unit is free again once its target has returned,
\* whatever main does: the tokens taken are those of the running units.
C23_ReleasedOnCompletion == sem = Ceiling - Cardinality(Running)

\* What holds instead: a token stays taken until main has collected the unit.
ReleasedOnCollection == sem = Ceiling - Cardinality(Holding)

\* ------------------------------------------------- token accounting: C24
\* The units that have passed LIMIT.acquire(), and those for which
\* LIMIT.release() was called (get_value sets _is_handled with it).
Acquired == {i \in Units : tstate[i] \in {"running", "returned", "raised"}}

Released == {i \in Units : handled[i]}

\* C24: the limiter's counter is the ceiling, minus one for each unit that
\* acquired, plus one for each unit released; only a unit that acquired is
\* released; the counter never exceeds the ceiling nor falls below zero; and
\* when the scheduler has returned every unit has acquired and released.
C24_TokenAccounting ==
    /\ Released \subseteq Acquired
    /\ sem = Ceiling - Cardinality(Acquired) + Cardinality(Released)
    /\ sem >= 0
    /\ sem <= Ceiling
    /\ SchedulerReturned => (Acquired = Units /\ Released = Units)

\* One unit has been released while another holds a token.
C24_Witness ==
    \E i, j \in Units : handled[i] /\ Holds(j) /\ sem = Ceiling - 1

\* ------------------------------------------------ whole-file replace: C25
\* C25: a file-unit that existed and was rewritten holds exactly the content
\* get() computed for it from the fetched record, whatever the old and the
\* new content are, a new content shorter than the old one included.
C25_WholeFileReplace ==
    (PostRun /\ cycle = 1)
        => \A sfx \in {".data", ".script"} :
              LET file == FilePath("scripts", 1, sfx)
              IN  (file \in written[1] /\ Exists(fs0, file))
                      => fs[file] = UnitContent(Recs[1], sfx)

\* The payload file was rewritten with a text shorter than the one it held.
C25_Witness ==
    /\ PostRun
    /\ cycle = 1
    /\ ScriptFile \in written[1]
    /\ Len(Recs[1].script) < Len(fs0[ScriptFile])
    /\ Len(Recs[1].script) > 0

\* ------------------------------------------------ disjoint subtrees: C26
\* The paths under the directory named after the module of unit i.
Subtree(i) == {p \in DOMAIN fs \cup DOMAIN fs0 : p[1] = mods[i]}

\* The files named in the records of list key of the report of unit i.
ReportedFiles(i, key) ==
    IF ret[i].isNone THEN {}
    ELSE {ret[i].report[key][k].file : k \in 1..Len(ret[i].report[key])}

\* The paths whose file was created, deleted or given another content since
\* the cycle began.
Touched ==
    {p \in DOMAIN fs \cup DOMAIN fs0 :
        p \notin DOMAIN fs \/ p \notin DOMAIN fs0 \/ fs[p] # fs0[p]}

\* C26: every file a unit writes or names in a record of its report lies
\* under the directory named after its module, no file is written by two
\* units, and every file touched in the store is one its owner wrote or
\* reported as removed.
C26_DisjointSubtrees ==
    /\ \A i \in Units :
          written[i] \cup ReportedFiles(i, "add") \cup ReportedFiles(i, "diff")
              \cup ReportedFiles(i, "remove") \subseteq Subtree(i)
    /\ \A i, j \in Units : i # j => written[i] \cap written[j] = {}
    /\ \A p \in Touched :
          \E i \in Units :
              /\ p \in Subtree(i)
              /\ p \in written[i] \cup ReportedFiles(i, "remove")

\* Two units have both written files and neither is collected yet.
C26_Witness ==
    \E i, j \in Units :
        /\ i # j
        /\ written[i] # {} /\ written[j] # {}
        /\ ~handled[i] /\ ~handled[j]

\* ------------------------------------------------- store convergence: C27
\* The files of the module's directory.
ModuleFiles == {p \in DOMAIN fs : p[1] = Module}

\* The files of the module's directory are the units of the fetched
\* identities, and each holds the content computed from a fetched record of
\* its identity.
StoreConverged ==
    /\ ModuleFiles = UNION {UnitFiles(Module, id) : id \in FetchedIds}
    /\ \A id \in FetchedIds :
         \A s \in 1..Len(Suffixes(Module)) :
            LET file == FilePath(Module, id, Suffixes(Module)[s])
            IN  /\ Exists(fs, file)
                /\ \E k \in 1..Len(Recs) :
                      /\ Recs[k].id = id
                      /\ fs[file] = WriteText(UnitContent(Recs[k], Suffixes(Module)[s]))

\* C27: after a cycle whose fetch succeeded and whose removal phase ran, the
\* module's directory holds exactly the units of the fetched identities, each
\* with the content of the fetched record.
C27_StoreConverges ==
    (mainpc = "done" /\ source[1].failAt = 0 /\ source[1].detailFail = {})
        => StoreConverged

\* --------------------------------------------------- a failed fetch: C28
\* The collection request of the module is answered with a non-success
\* response: the one request of computergroups, or a page the pagination
\* loop gets to.
FetchFailed ==
    /\ Module \notin LegacyModules
    /\ source[1].failAt # 0
    /\ \/ Module = "computergroups"
       \/ source[1].failAt = 1
       \/ (source[1].failAt - 1) * PageSize < Len(Recs)

\* C28: when the collection fetch fails, no file of the store is written or
\* deleted, no record of any list is reported, and nothing is committed as
\* removed, in the module's run and in the commit phase after it.
C28_FailedFetchLeavesStore ==
    (Dispatched /\ FetchFailed)
        => /\ fs = fs0
           /\ written[1] = {}
           /\ \A k \in 1..Len(logs) : logs[k].report = EmptyLog
           /\ \A k \in 1..Len(sink) : sink[k].kind # "Removed"

\* The list request of computergroups failed with identities persisted, and
\* the removal phase has run.
C28_Witness ==
    /\ mainpc = "done"
    /\ Module = "computergroups"
    /\ FetchFailed
    /\ DOMAIN fs0 # {}

\* ------------------------------------------ tokens after the return: C29
\* C29: when the scheduler has returned, the limiter's counter is the
\* ceiling again.
C29_AllTokensBack == SchedulerReturned => sem = Ceiling

\* The scheduler has returned after more units than the ceiling admits at a
\* time have all run.
C29_Witness ==
    /\ mainpc = "done"
    /\ Cardinality(Units) > Ceiling
    /\ \A i \in Units : tstate[i] = "returned" /\ handled[i]

\* ---------------------------------------------- collection of a unit: C30
\* C30: a unit's handled flag never goes back to false; the step that sets
\* it (get_value) is taken for a unit that is not alive and whose flag was
\* false; and unless main dies in that step, logs then holds the value the
\* unit's target returned as the entry of its module.
C30_CollectedOnceAfterEnd ==
    [][\A i \in Units :
          /\ handled[i] => handled'[i]
          /\ (~handled[i] /\ handled'[i])
                => /\ ~is_alive(i)
                   /\ tstate'[i] = tstate[i]
                   /\ ret'[i] = ret[i]
                   /\ mainpc' # "crashed"
                        => /\ ~ret[i].isNone
                           /\ \E k \in 1..Len(logs') : logs'[k] = ret[i]
                           /\ \A k \in 1..Len(logs) : logs[k].module # ret[i].module]_vars

\* A unit has been collected, its returned value merged, while another unit
\* is still alive.
C30_Witness ==
    \E i, j \in Units :
        /\ handled[i]
        /\ \E k \in 1..Len(logs) : logs[k] = ret[i]
        /\ is_alive(j)

=============================================================================
